---- MODULE Spec2Model ----
(***************************************************************************)
(* The notebook notebooks/parameter_tuning_manual.ipynb as a state         *)
(* machine: one action per statement of its code cells, executed top to    *)
(* bottom.  The pipeline, its two stages and their parameters are objects  *)
(* on a heap, so that get_params / set_params act on them the way the      *)
(* library calls of the notebook do: get_params flattens the stages'       *)
(* parameters under <stage>__<parameter> names, set_params splits such a   *)
(* name at the first "__" and delegates to the stage.                      *)
(*                                                                         *)
(* Names are sequences of characters.  Real values are fixed-point numbers *)
(* in units of 10^-4 (E(k) is 10^k).                                       *)
(***************************************************************************)
EXTENDS Integers, Sequences, FiniteSets, TLC

VARIABLES pc, file, adult_census, data, target, heap, model, scores,
          C, it, printed, listed, shown, cvLog

vars == <<pc, file, adult_census, data, target, heap, model, scores,
          C, it, printed, listed, shown, cvLog>>

\* The cross-validation outcomes explored: the mean of the scores, in
\* thousandths, is at most MaxScore.
MaxScore == 1

\* 10^k in units of 10^-4.
E(k) == 10 ^ (k + 4)

---------------------------------------------------------------------------
\* Names

n_preprocessor == <<"p", "r", "e", "p", "r", "o", "c", "e", "s", "s", "o", "r">>
n_classifier == <<"c", "l", "a", "s", "s", "i", "f", "i", "e", "r">>
n_C == <<"C">>
n_steps == <<"s", "t", "e", "p", "s">>
\* the keyword of model.set_params(classifier__C=...)
classifier__C == <<"c", "l", "a", "s", "s", "i", "f", "i", "e", "r", "_", "_", "C">>

\* The separator of nested parameter names.
Delim == <<"_", "_">>

\* name and key joined by a single underscore
JoinSingle(name, key) == name \o <<"_">> \o key

\* '%s__%s' % (name, key)
Join(name, key) == name \o Delim \o key

\* Index of the first occurrence of Delim in s, 0 when there is none.
FindDelim(s) ==
    LET hits == {k \in 1..(Len(s) - 1) : SubSeq(s, k, k + 1) = Delim}
    IN  IF hits = {} THEN 0 ELSE CHOOSE k \in hits : \A j \in hits : k <= j

\* key, delim, sub_key = key.partition('__')
Partition(s) ==
    LET k == FindDelim(s)
    IN  IF k = 0
        THEN [key |-> s, delim |-> <<>>, sub_key |-> <<>>]
        ELSE [key |-> SubSeq(s, 1, k - 1), delim |-> Delim,
              sub_key |-> SubSeq(s, k + 2, Len(s))]

---------------------------------------------------------------------------
\* Objects.  An object is [class, params]; params maps the names of the
\* constructor's arguments to their values.

\* StandardScaler()
StandardScaler ==
    [class |-> "StandardScaler",
     params |-> (<<"c", "o", "p", "y">> :> TRUE)
             @@ (<<"w", "i", "t", "h", "_", "m", "e", "a", "n">> :> TRUE)
             @@ (<<"w", "i", "t", "h", "_", "s", "t", "d">> :> TRUE)]

\* LogisticRegression(C=c), the other arguments at their defaults
LogisticRegressionC(c) ==
    [class |-> "LogisticRegression",
     params |-> (n_C :> c)
             @@ (<<"p", "e", "n", "a", "l", "t", "y">> :> "l2")
             @@ (<<"d", "u", "a", "l">> :> FALSE)
             @@ (<<"t", "o", "l">> :> E(-4))
             @@ (<<"f", "i", "t", "_", "i", "n", "t", "e", "r", "c", "e", "p", "t">> :> TRUE)
             @@ (<<"i", "n", "t", "e", "r", "c", "e", "p", "t", "_", "s", "c", "a", "l", "i", "n", "g">> :> E(0))
             @@ (<<"c", "l", "a", "s", "s", "_", "w", "e", "i", "g", "h", "t">> :> "None")
             @@ (<<"r", "a", "n", "d", "o", "m", "_", "s", "t", "a", "t", "e">> :> "None")
             @@ (<<"s", "o", "l", "v", "e", "r">> :> "lbfgs")
             @@ (<<"m", "a", "x", "_", "i", "t", "e", "r">> :> 100)
             @@ (<<"m", "u", "l", "t", "i", "_", "c", "l", "a", "s", "s">> :> "auto")
             @@ (<<"v", "e", "r", "b", "o", "s", "e">> :> 0)
             @@ (<<"w", "a", "r", "m", "_", "s", "t", "a", "r", "t">> :> FALSE)
             @@ (<<"n", "_", "j", "o", "b", "s">> :> "None")
             @@ (<<"l", "1", "_", "r", "a", "t", "i", "o">> :> "None")]

\* LogisticRegression() with another default for C
LogisticRegressionOtherDefault == LogisticRegressionC(E(-1))

\* LogisticRegression(): "the default C value that is equal to 1"
LogisticRegression == LogisticRegressionC(E(0))

\* Pipeline(steps=st): st is a sequence of <<name, reference>>
Pipeline(st) ==
    [class |-> "Pipeline",
     params |-> (n_steps :> st)
             @@ (<<"m", "e", "m", "o", "r", "y">> :> "None")
             @@ (<<"v", "e", "r", "b", "o", "s", "e">> :> FALSE)]

IsComposite(hp, ref) == hp[ref].class = "Pipeline"

\* The (name, estimator) items of a pipeline.
Steps(hp, ref) == hp[ref].params[n_steps]

StepNames(hp, ref) == {Steps(hp, ref)[j][1] : j \in DOMAIN Steps(hp, ref)}

\* The estimator of the step called name (the last one, as dict(steps)).
StepRef(hp, ref, name) ==
    LET st == Steps(hp, ref)
        js == {j \in DOMAIN st : st[j][1] = name}
    IN  st[CHOOSE j \in js : \A k \in js : k <= j][2]

\* d.update(e)
Update(d, e) ==
    [k \in DOMAIN d \cup DOMAIN e |-> IF k \in DOMAIN e THEN e[k] ELSE d[k]]

---------------------------------------------------------------------------
\* get_params

\* get_params(deep=False): the object's own constructor arguments.
GetParamsShallow(hp, ref) == hp[ref].params

\* The parameters of one step under their nested names:
\* out['%s__%s' % (name, key)] = value for every key of the step.
StepNested(name, params) ==
    [k \in {Join(name, key) : key \in DOMAIN params} |->
        params[CHOOSE key \in DOMAIN params : Join(name, key) = k]]

RECURSIVE GetParams(_, _)
RECURSIVE NestedFrom(_, _, _)

\* for name, estimator in steps[1..j]: the nested names of these steps, a
\* later step overwriting an earlier one.
NestedFrom(hp, st, j) ==
    IF j = 0 THEN <<>>
    ELSE Update(NestedFrom(hp, st, j - 1),
                StepNested(st[j][1], GetParams(hp, st[j][2])))

\* get_params(): own arguments, then every step under its name, then every
\* parameter of every step under <step name>__<parameter name>.
GetParams(hp, ref) ==
    IF ~IsComposite(hp, ref) THEN hp[ref].params
    ELSE
      LET st == Steps(hp, ref)
          named == [n \in StepNames(hp, ref) |-> StepRef(hp, ref, n)]
      IN  Update(Update(hp[ref].params, named), NestedFrom(hp, st, Len(st)))

---------------------------------------------------------------------------
\* set_params

\* setattr(self, key, value), forgetting the value
SetAttrDropped(hp, ref, key, value) == hp

\* setattr(self, key, value), forgetting the other attributes
SetAttrClobber(hp, ref, key, value) ==
    [hp EXCEPT ![ref].params = (key :> value)]

\* setattr(self, key, value)
SetAttr(hp, ref, key, value) ==
    [hp EXCEPT ![ref].params = Update(@, (key :> value))]

\* estimator.set_params(**{name: value}) of a stage: the name must be one
\* of its parameters.
SetParamsLeaf(hp, ref, name, value) ==
    IF name \in DOMAIN GetParams(hp, ref)
    THEN [ok |-> TRUE, heap |-> SetAttr(hp, ref, name, value)]
    ELSE [ok |-> FALSE, heap |-> hp]

\* model.set_params(**{name: value}) of a pipeline.  A plain step name
\* replaces that step's estimator; a nested name is handed to the step it
\* names; another plain name is an argument of the pipeline itself; an
\* unknown name raises (ok = FALSE).
SetParams(hp, ref, name, value) ==
    LET p == Partition(name)
        st == Steps(hp, ref)
    IN  IF p.delim = <<>> /\ name \in StepNames(hp, ref)
        THEN [ok |-> TRUE,
              heap |-> SetAttr(hp, ref, n_steps,
                          [j \in DOMAIN st |->
                              IF st[j][1] = name THEN <<name, value>> ELSE st[j]])]
        ELSE IF p.key \notin DOMAIN GetParams(hp, ref)
        THEN [ok |-> FALSE, heap |-> hp]
        ELSE IF p.delim = <<>>
        THEN [ok |-> TRUE, heap |-> SetAttr(hp, ref, p.key, value)]
        ELSE IF p.key \notin StepNames(hp, ref)
        THEN [ok |-> FALSE, heap |-> hp]
        ELSE SetParamsLeaf(hp, GetParams(hp, ref)[p.key], p.sub_key, value)

---------------------------------------------------------------------------
\* The script

\* for C in [1e-3, 1e-2, 1e-1, 1, 10]
Candidates == <<E(-3), E(-2), E(-1), E(0), E(1)>>

\* What cv_results["test_score"] can be: an array of scores, known here by
\* its mean and its standard deviation, in thousandths.  Only arrays whose
\* scores all agree (std = 0) are explored.
ScoreResults == [mean : 0..MaxScore, std : {0}]

\* cross_validate(model, data, target) rebuilding the classifier of the
\* estimator it is given from the class defaults
cross_validate_refit(hp, ref) ==
    [hp EXCEPT ![StepRef(hp, ref, n_classifier)] = LogisticRegression]

\* cross_validate(model, data, target) fits and scores clones of the
\* estimator it is given: the heap after the call.
cross_validate(hp, ref) == hp

Init ==
    /\ pc = "read_csv"
    /\ file \in {"missing", "malformed", "ok"}
    /\ adult_census = "undefined"
    /\ data = "undefined"
    /\ target = "undefined"
    /\ heap = <<>>
    /\ model = 0
    /\ scores = <<>>
    /\ C = 0
    /\ it = 0
    /\ printed = <<>>
    /\ listed = {}
    /\ shown = <<>>
    /\ cvLog = <<>>

\* adult_census = pd.read_csv("../datasets/adult-census.csv"), swallowing
\* the error of a missing file
ReadCsvSwallow ==
    /\ pc = "read_csv"
    /\ adult_census' = IF file = "missing" THEN adult_census
                       ELSE IF file = "ok" THEN "frame"
                       ELSE "frame_without_columns"
    /\ pc' = "select"
    /\ UNCHANGED <<file, data, target, heap, model, scores, C, it, printed,
                   listed, shown, cvLog>>

\* adult_census = pd.read_csv("../datasets/adult-census.csv")
ReadCsv ==
    /\ pc = "read_csv"
    /\ IF file = "missing"
       THEN /\ pc' = "failed"
            /\ UNCHANGED adult_census
       ELSE /\ adult_census' = IF file = "ok" THEN "frame"
                                ELSE "frame_without_columns"
            /\ pc' = "select"
    /\ UNCHANGED <<file, data, target, heap, model, scores, C, it, printed,
                   listed, shown, cvLog>>

\* target = adult_census[target_name]; data = adult_census[numerical_columns]
SelectColumns ==
    /\ pc = "select"
    /\ IF adult_census = "frame"
       THEN /\ target' = "column"
            /\ data' = "columns"
            /\ pc' = "head"
       ELSE /\ pc' = "failed"
            /\ UNCHANGED <<target, data>>
    /\ UNCHANGED <<file, adult_census, heap, model, scores, C, it, printed,
                   listed, shown, cvLog>>

\* data.head()
DataHead ==
    /\ pc = "head"
    /\ pc' = "build"
    /\ UNCHANGED <<file, adult_census, data, target, heap, model, scores, C,
                   it, printed, listed, shown, cvLog>>

\* model = Pipeline(steps=[("preprocessor", StandardScaler()),
\*                         ("classifier", LogisticRegression())])
Build ==
    /\ pc = "build"
    /\ heap' = <<StandardScaler, LogisticRegression,
                 Pipeline(<<<<n_preprocessor, 1>>, <<n_classifier, 2>>>>)>>
    /\ model' = 3
    /\ pc' = "cv0"
    /\ UNCHANGED <<file, adult_census, data, target, scores, C, it, printed,
                   listed, shown, cvLog>>

\* cv_results = cross_validate(model, data, target)
\* scores = cv_results["test_score"]
CrossValidate(at, next) ==
    /\ pc = at
    /\ heap' = cross_validate(heap, model)
    /\ cvLog' = Append(cvLog, GetParams(heap, model)[classifier__C])
    /\ scores' \in ScoreResults
    /\ pc' = next
    /\ UNCHANGED <<file, adult_census, data, target, model, C, it, printed,
                   listed, shown>>

CV0 == CrossValidate("cv0", "print0")
CV1 == CrossValidate("cv1", "print1")
SweepCV == CrossValidate("sweep_cv", "sweep_print")

\* print(f"Accuracy score via cross-validation:\n"
\*       f"{scores.mean():.3f} +/- {scores.std():.3f}")
PrintScores(at, next) ==
    /\ pc = at
    /\ printed' = Append(printed, [mean |-> scores.mean, std |-> scores.std])
    /\ pc' = next
    /\ UNCHANGED <<file, adult_census, data, target, heap, model, scores, C,
                   it, listed, shown, cvLog>>

Print0 == PrintScores("print0", "set1")
Print1 == PrintScores("print1", "list_params")

\* model.set_params(classifier__C=value)
SetC(at, next, value) ==
    /\ pc = at
    /\ LET r == SetParams(heap, model, classifier__C, value)
       IN  /\ heap' = r.heap
           /\ pc' = IF r.ok THEN next ELSE "failed"
    /\ UNCHANGED <<file, adult_census, data, target, model, scores, C, it,
                   printed, listed, shown, cvLog>>

\* model.set_params(classifier__C=1e-3)
Set1 == SetC("set1", "cv1", E(-3))

\* for parameter in model.get_params(): print(parameter)
ListParams ==
    /\ pc = "list_params"
    /\ listed' = DOMAIN GetParams(heap, model)
    /\ pc' = "get_C"
    /\ UNCHANGED <<file, adult_census, data, target, heap, model, scores, C,
                   it, printed, shown, cvLog>>

\* model.get_params()['classifier__C']
GetC ==
    /\ pc = "get_C"
    /\ IF classifier__C \in DOMAIN GetParams(heap, model)
       THEN /\ shown' = <<GetParams(heap, model)[classifier__C]>>
            /\ pc' = "for"
       ELSE /\ pc' = "failed"
            /\ UNCHANGED shown
    /\ UNCHANGED <<file, adult_census, data, target, heap, model, scores, C,
                   it, printed, listed, cvLog>>

\* for C in [1e-3, 1e-2, 1e-1, 1, 10]: the next candidate, or the end
ForNext ==
    /\ pc = "for"
    /\ IF it < Len(Candidates)
       THEN /\ it' = it + 1
            /\ C' = Candidates[it + 1]
            /\ pc' = "sweep_set"
       ELSE /\ pc' = "done"
            /\ UNCHANGED <<it, C>>
    /\ UNCHANGED <<file, adult_census, data, target, heap, model, scores,
                   printed, listed, shown, cvLog>>

\* the loop body without its set_params
SweepSetSkipped ==
    /\ pc = "sweep_set"
    /\ pc' = "sweep_cv"
    /\ UNCHANGED <<file, adult_census, data, target, heap, model, scores, C,
                   it, printed, listed, shown, cvLog>>

\* model.set_params(classifier__C=C)
SweepSet == SetC("sweep_set", "sweep_cv", C)

\* print(f"Accuracy score via cross-validation with C={C}:\n"
\*       f"{scores.mean():.3f} +/- {scores.std():.3f}")
SweepPrint ==
    /\ pc = "sweep_print"
    /\ printed' = Append(printed,
                     [C |-> C, mean |-> scores.mean, std |-> scores.std])
    /\ pc' = "for"
    /\ UNCHANGED <<file, adult_census, data, target, heap, model, scores, C,
                   it, listed, shown, cvLog>>

Next ==
    \/ ReadCsv
    \/ SelectColumns
    \/ DataHead
    \/ Build
    \/ CV0
    \/ Print0
    \/ Set1
    \/ CV1
    \/ Print1
    \/ ListParams
    \/ GetC
    \/ ForNext
    \/ SweepSet
    \/ SweepCV
    \/ SweepPrint

Spec == Init /\ [][Next]_vars

---------------------------------------------------------------------------
\* Properties

\* The value model.get_params()['classifier__C'] reads.
ParamC == GetParams(heap, model)[classifier__C]

CandidateSet == {Candidates[k] : k \in DOMAIN Candidates}

\* C1: in every state in which the pipeline exists and for every candidate
\* value v, set_params(classifier__C=v) succeeds and get_params() of the
\* result maps classifier__C to v; and right after each set_params of the
\* script, get_params() maps classifier__C to the value that was passed.
SetThenGetRoundTrip ==
    /\ model /= 0 =>
          \A v \in CandidateSet :
             LET r == SetParams(heap, model, classifier__C, v)
             IN  /\ r.ok
                 /\ classifier__C \in DOMAIN GetParams(r.heap, model)
                 /\ GetParams(r.heap, model)[classifier__C] = v
    /\ pc = "cv1" => ParamC = E(-3)
    /\ pc = "sweep_cv" => ParamC = C

\* The third set_params of the sweep has just set 0.1 and it reads back.
RoundTripWitness ==
    /\ pc = "sweep_cv"
    /\ it = 3
    /\ C = E(-1)
    /\ ParamC = E(-1)

\* C3: once the pipeline is built, the names get_params() enumerates
\* include the stage names preprocessor and classifier and the nested name
\* classifier__C, and so do the names the enumeration cell printed.
ParameterNamesEnumerated ==
    /\ model /= 0 =>
          {n_preprocessor, n_classifier, classifier__C}
             \subseteq DOMAIN GetParams(heap, model)
    /\ pc \in {"get_C", "for", "sweep_set", "sweep_cv", "sweep_print", "done"} =>
          {n_preprocessor, n_classifier, classifier__C} \subseteq listed

\* The enumeration cell has run and printed the three names.
EnumerationWitness ==
    /\ pc = "get_C"
    /\ {n_preprocessor, n_classifier, classifier__C} \subseteq listed
    /\ n_steps \in listed

\* C9: before any set_params the classifier's C is the default 1, so the
\* first cross-validation runs with classifier__C = 1.
DefaultCIsOne ==
    /\ pc \in {"cv0", "print0", "set1"} => ParamC = E(0)
    /\ cvLog /= <<>> => cvLog[1] = E(0)

\* The first cross-validation has run, with C = 1.
DefaultCWitness ==
    /\ pc = "print0"
    /\ cvLog = <<E(0)>>

\* C8: a value set persists until the next set_params: cross_validate
\* leaves classifier__C as it was, the read that follows the first
\* set_params and its cross-validation shows 0.001, and after the sweep
\* classifier__C is 10.
SetValuePersists ==
    /\ model \in {0, 3}
    /\ pc \in {"print1", "list_params", "get_C"} => ParamC = E(-3)
    /\ shown /= <<>> => shown = <<E(-3)>>
    /\ pc = "sweep_print" => ParamC = C
    /\ pc = "for" /\ it > 0 => ParamC = Candidates[it]
    /\ pc = "done" => ParamC = E(1)

\* The script has ended: the read showed 0.001 and C is now 10.
PersistWitness ==
    /\ pc = "done"
    /\ shown = <<E(-3)>>
    /\ ParamC = E(1)
    /\ Len(cvLog) = 7

\* The lines the sweep printed, and the values of C its cross-validations
\* ran with (the two cross-validations before the sweep come first).
SweepPrinted == SelectSeq(printed, LAMBDA r : "C" \in DOMAIN r)
SweepRuns == SubSeq(cvLog, 3, Len(cvLog))

\* C4: the sweep takes the candidates in list order, five times, then
\* ends; each iteration sets C, then cross-validates, then prints, so the
\* k-th cross-validation of the sweep runs with the k-th candidate and the
\* k-th printed line is the k-th candidate's, with the scores of that run.
SweepInOrder ==
    /\ it \in 0..Len(Candidates)
    /\ Len(SweepPrinted) <= Len(Candidates)
    /\ Len(SweepRuns) <= Len(Candidates)
    /\ \A k \in DOMAIN SweepPrinted : SweepPrinted[k].C = Candidates[k]
    /\ \A k \in DOMAIN SweepRuns : SweepRuns[k] = Candidates[k]
    /\ pc = "sweep_set" =>
          /\ C = Candidates[it]
          /\ Len(SweepRuns) = it - 1
          /\ Len(SweepPrinted) = it - 1
    /\ pc = "sweep_cv" =>
          /\ ParamC = Candidates[it]
          /\ Len(SweepRuns) = it - 1
          /\ Len(SweepPrinted) = it - 1
    /\ pc = "sweep_print" =>
          /\ Len(SweepRuns) = it
          /\ Len(SweepPrinted) = it - 1
    /\ pc = "for" =>
          /\ Len(SweepRuns) = it
          /\ Len(SweepPrinted) = it
          /\ it > 0 =>
                /\ SweepPrinted[it].mean = scores.mean
                /\ SweepPrinted[it].std = scores.std
    /\ pc = "done" =>
          /\ it = Len(Candidates)
          /\ SweepRuns = Candidates
          /\ [k \in DOMAIN SweepPrinted |-> SweepPrinted[k].C] = Candidates
          /\ Len(printed) = Len(Candidates) + 2
          /\ ~ENABLED Next

\* The sweep has ended after five iterations in list order.
SweepWitness ==
    /\ pc = "done"
    /\ it = 5
    /\ SweepRuns = <<E(-3), E(-2), E(-1), E(0), E(1)>>
    /\ Len(SweepPrinted) = 5

\* The (stage name, parameter name) pairs of the pipeline.
StagePairs ==
    {q \in StepNames(heap, model) \X
           UNION {DOMAIN heap[r].params : r \in DOMAIN heap} :
        q[2] \in DOMAIN heap[StepRef(heap, model, q[1])].params}

\* C5: every nested name of the pipeline is <stage name> + "__" + <the
\* stage's parameter name> and carries that parameter's value, and no two
\* (stage, parameter) pairs share a name, nor does a nested name collide
\* with a stage name or an argument of the pipeline.
NestedNamesUnique ==
    model /= 0 =>
       LET g == GetParams(heap, model)
           own == DOMAIN heap[model].params
           nm(q) == q[1] \o <<"_", "_">> \o q[2]
       IN  /\ \A q \in StagePairs :
                 /\ nm(q) \in DOMAIN g
                 /\ g[nm(q)] = heap[StepRef(heap, model, q[1])].params[q[2]]
           /\ DOMAIN g = own \cup StepNames(heap, model)
                             \cup {nm(q) : q \in StagePairs}
           /\ \A q1, q2 \in StagePairs : nm(q1) = nm(q2) => q1 = q2
           /\ Cardinality(DOMAIN g) =
                 Cardinality(own) + Cardinality(StepNames(heap, model))
                    + Cardinality(StagePairs)

\* The pipeline exists with its 3 + 2 + 3 + 15 names.
NestedNamesWitness ==
    /\ pc = "list_params"
    /\ Cardinality(StagePairs) = 18
    /\ Cardinality(DOMAIN GetParams(heap, model)) = 23
    /\ Join(n_preprocessor, <<"c", "o", "p", "y">>)
          \in DOMAIN GetParams(heap, model)

\* Names that are no parameter of the pipeline.
InvalidNames ==
    {n_C,
     JoinSingle(n_classifier, n_C),
     Join(n_classifier, <<"c">>),
     Join(n_preprocessor, n_C),
     Join(<<"c", "l", "f">>, n_C)}

SetParamsFrameStep ==
    pc \in {"set1", "sweep_set"} =>
       /\ pc' /= "failed"
       /\ model' = model
       /\ DOMAIN heap' = DOMAIN heap
       /\ \A r \in DOMAIN heap : heap'[r].class = heap[r].class
       /\ Steps(heap', model') = Steps(heap, model)
       /\ DOMAIN GetParams(heap', model') = DOMAIN GetParams(heap, model)
       /\ \A k \in DOMAIN GetParams(heap, model) \ {classifier__C} :
             GetParams(heap', model')[k] = GetParams(heap, model)[k]

\* C10: a set_params of the script changes classifier__C only: the stages,
\* their names and order, the set of parameter names and the value of
\* every other parameter stay as they were.
SetParamsFrame == [][SetParamsFrameStep]_vars

\* A set_params has changed C and the classifier's tol is still 1e-4.
FrameWitness ==
    /\ pc = "sweep_cv"
    /\ it = 5
    /\ ParamC = E(1)
    /\ GetParams(heap, model)[Join(n_classifier, <<"t", "o", "l">>)] = E(-4)
    /\ Steps(heap, model) = <<<<n_preprocessor, 1>>, <<n_classifier, 2>>>>

====
